---- MODULE Spec2Model ----
\* Model of video_echo/py_server/server.py: the WebTransport echo server's
\* per-connection protocol object (WebTransportProtocol) and its four echo
\* handlers, driven by the events the aioquic transport delivers.
EXTENDS Integers, Sequences, FiniteSets, TLC

VARIABLES
    http,            \* [Conns -> BOOLEAN]  self._http is not None
    handler,         \* [Conns -> handler record]  self._handler
    echo_stream_id,  \* [Conns -> map inbound id -> outbound id]  handler._echo_stream_id
    responses,       \* [Conns -> Seq]  calls of self._http.send_headers
    created,         \* [Conns -> Seq]  calls of self._http.create_webtransport_stream
    writes,          \* [Conns -> Seq]  calls of self._http._quic.send_stream_data
    datagrams,       \* [Conns -> Seq]  calls of self._http.send_datagram
    transmits,       \* [Conns -> Nat]  calls of self._protocol.transmit
    closedCalls,     \* [Conns -> Nat]  calls of handler.session_closed
    errors,          \* [Conns -> Seq]  exceptions that left quic_event_received
    delivered,       \* [Conns -> Seq]  stream-data events a stream echo handler received
    event,           \* the event processed by the last step (with its connection)
    before,          \* that connection's state when the event arrived
    nEvents          \* number of events processed so far, all connections

vars == <<http, handler, echo_stream_id, responses, created, writes, datagrams,
          transmits, closedCalls, errors, delivered, event, before, nEvents>>

----------------------------------------------------------------------------
\* Bounds of the model.

\* Events delivered in one run, all connections together.
MaxEvents == 4

\* Events delivered in one run of the two-connection specification.
MaxEventsTwo == 4

\* The accepted QUIC connections, one WebTransportProtocol each.
Conns == {"A", "B"}

\* The connections that receive events under Spec.
Primary == {"A"}

\* A header, or a dictionary key, that is absent (Python's None from dict.get).
Absent == "<none>"

\* The stream DATA frames arrive on, and the session id the client puts on
\* its WebTransport streams: request stream 0. Requests arrive on streams 0
\* and 4, so a session opened on stream 4 sees stream data of another
\* session id.
DataStreamIds == {0}
ClientSessionIds == {0}

\* Inbound WebTransport streams: 2 is client unidirectional, 8 is client
\* bidirectional.
InboundStreamIds == {2, 8}

Paths == {"/audio/echo/stream", "/video/echo/stream",
          "/audio/echo/datagram", "/video/echo/datagram",
          "/audio/echo", "/AUDIO/ECHO/STREAM", Absent}

\* Payloads of stream chunks (b"abc", b"def") and of datagrams.
Chunks == {<<97, 98, 99>>, <<100, 101, 102>>}
DatagramPayloads == {<<1, 2>>, <<3>>}

\* DATA frames, as (payload, stream ended): the close marker 0x68 0x43 alone
\* and followed by a byte, on a stream that ends and on one that does not;
\* the nominal value 0x28 0x43; and ordinary bytes.
DataFrames == {<< <<104, 67>>, TRUE >>, << <<104, 67, 0>>, TRUE >>,
               << <<104, 67, 0>>, FALSE >>, << <<40, 67, 0>>, TRUE >>,
               << <<1, 2, 3>>, TRUE >>, << <<1, 2, 3>>, FALSE >>}

----------------------------------------------------------------------------
\* Values.

NoHandler == [kind |-> "None", session_id |-> -1]

StreamKinds == {"AudioEchoStream", "VideoEchoStream"}
DatagramKinds == {"AudioEchoDatagram", "VideoEchoDatagram"}

EmptyMap == [s \in {} |-> 0]

\* The header list of a request: one (name, value) pair per header present.
HeaderList(m, p, a, pa) ==
    (IF m = Absent THEN <<>> ELSE << <<":method", m>> >>) \o
    (IF p = Absent THEN <<>> ELSE << <<":protocol", p>> >>) \o
    (IF a = Absent THEN <<>> ELSE << <<":authority", a>> >>) \o
    (IF pa = Absent THEN <<>> ELSE << <<":path", pa>> >>)

\* The requests a client sends: every extended CONNECT over the authorities
\* and paths, one with :path given twice, and requests of another method or
\* protocol, with and without the other two headers.
HeaderLists ==
    {HeaderList("CONNECT", "webtransport", "localhost", pa) : pa \in Paths}
    \cup {HeaderList("CONNECT", "webtransport", Absent, pa) :
            pa \in {"/audio/echo/stream", "/audio/echo", Absent}}
    \cup { << <<":method", "CONNECT">>, <<":protocol", "webtransport">>,
              <<":authority", "localhost">>, <<":path", "/audio/echo">>,
              <<":path", "/video/echo/datagram">> >> }
    \cup {HeaderList(mp[1], mp[2], "localhost", "/audio/echo/stream") :
            mp \in {<<"GET", "webtransport">>, <<"CONNECT", "websocket">>,
                    <<"CONNECT", Absent>>, <<Absent, "webtransport">>}}
    \cup {HeaderList("GET", Absent, Absent, Absent)}

\* The requests as (stream, header list): every header list on stream 0; on
\* stream 4 the four routed paths, an unrouted path, a missing path and a
\* request that is no extended CONNECT.
Requests ==
    {<<0, hl>> : hl \in HeaderLists}
    \cup {<<4, HeaderList("CONNECT", "webtransport", "localhost", pa)>> :
            pa \in {"/audio/echo/stream", "/video/echo/stream",
                    "/audio/echo/datagram", "/video/echo/datagram",
                    "/audio/echo", Absent}}
    \cup {<<4, HeaderList("GET", Absent, Absent, Absent)>>}

\* headers = {}; for header, value in event.headers: headers[header] = value
RECURSIVE HeadersDict(_)
HeadersDict(list) ==
    IF list = <<>> THEN [n \in {} |-> Absent]
    ELSE LET n == Len(list)
             rest == HeadersDict(SubSeq(list, 1, n - 1))
             name == list[n][1]
         IN [k \in DOMAIN rest \cup {name} |->
                IF k = name THEN list[n][2] ELSE rest[k]]

\* headers.get(name)
Get(dict, name) == IF name \in DOMAIN dict THEN dict[name] ELSE Absent

\* str(status_code).encode(): the decimal digits as ASCII bytes.
RECURSIVE StrEncode(_)
StrEncode(n) ==
    IF n < 10 THEN <<48 + n>>
    ELSE Append(StrEncode(n \div 10), 48 + (n % 10))

\* The state of connection c.
Snapshot(c) ==
    [handler |-> handler[c], map |-> echo_stream_id[c],
     responses |-> responses[c], created |-> created[c], writes |-> writes[c],
     datagrams |-> datagrams[c], transmits |-> transmits[c],
     closedCalls |-> closedCalls[c], errors |-> errors[c]]

----------------------------------------------------------------------------
Init ==
    /\ http = [c \in Conns |-> FALSE]
    /\ handler = [c \in Conns |-> NoHandler]
    /\ echo_stream_id = [c \in Conns |-> EmptyMap]
    /\ responses = [c \in Conns |-> <<>>]
    /\ created = [c \in Conns |-> <<>>]
    /\ writes = [c \in Conns |-> <<>>]
    /\ datagrams = [c \in Conns |-> <<>>]
    /\ transmits = [c \in Conns |-> 0]
    /\ closedCalls = [c \in Conns |-> 0]
    /\ errors = [c \in Conns |-> <<>>]
    /\ delivered = [c \in Conns |-> <<>>]
    /\ event = [type |-> "none", conn |-> Absent]
    /\ before = Snapshot("A")
    /\ nEvents = 0

----------------------------------------------------------------------------
\* Handlers.

\* What one call changes: the fields are the new handler and mapping table, and
\* the calls made on the transport, in order.
Outcome(h, map) ==
    [handler |-> h, map |-> map, sent |-> <<>>, created |-> <<>>,
     writes |-> <<>>, datagrams |-> <<>>, transmits |-> 0, closed |-> 0,
     delivered |-> <<>>, raised |-> <<>>]

\* self._http.create_webtransport_stream(session_id, is_unidirectional=True):
\* the next server-initiated unidirectional stream id; n streams were created
\* before, and HTTP/3 itself holds the first three (3, 7, 11).
CreateWebtransportStream(n) == 4 * n + 15

DelKeyKept(map, stream_id) == map

\* del self._echo_stream_id[stream_id]
DelKey(map, stream_id) == [k \in DOMAIN map \ {stream_id} |-> map[k]]

StreamClosedUncaught(h, map, stream_id) ==
    IF stream_id \in DOMAIN map
    THEN Outcome(h, DelKey(map, stream_id))
    ELSE [Outcome(h, map) EXCEPT !.raised = <<"KeyError">>]

\* AudioEchoStream.stream_closed, VideoEchoStream.stream_closed
StreamEchoStreamClosed(h, map, stream_id) ==
    IF stream_id \in DOMAIN map
    THEN Outcome(h, DelKey(map, stream_id))
    ELSE Outcome(h, map)                                      \* except KeyError: pass

\* AudioEchoDatagram.stream_closed, VideoEchoDatagram.stream_closed: the
\* handler has no _echo_stream_id attribute, and AttributeError is not caught.
DatagramEchoStreamClosed(h, map, stream_id) ==
    [Outcome(h, map) EXCEPT !.raised = <<"AttributeError">>]

\* handler.stream_closed(stream_id)
StreamClosed(h, map, stream_id) ==
    IF h.kind \in StreamKinds
    THEN StreamEchoStreamClosed(h, map, stream_id)
    ELSE DatagramEchoStreamClosed(h, map, stream_id)

EndStreamDropped(ev) == FALSE

\* The end_stream argument of send_stream_data.
EndStreamArg(ev) == ev.stream_ended

\* AudioEchoStream.h3_event_received, VideoEchoStream.h3_event_received;
\* n is the number of outbound streams created so far.
StreamEchoH3EventReceived(h, map, n, ev) ==
    IF ev.type = "WebTransportStreamDataReceived"
    THEN LET unseen == ev.stream_id \notin DOMAIN map
             out == CreateWebtransportStream(n)
             map1 == IF unseen
                     THEN [k \in DOMAIN map \cup {ev.stream_id} |->
                              IF k = ev.stream_id THEN out ELSE map[k]]
                     ELSE map
             write == [stream_id |-> map1[ev.stream_id], data |-> ev.data,
                       end_stream |-> EndStreamArg(ev)]
             closed == IF ev.stream_ended
                       THEN StreamEchoStreamClosed(h, map1, ev.stream_id)
                       ELSE Outcome(h, map1)
         IN [closed EXCEPT
                !.created = IF unseen
                            THEN << [stream_id |-> out,
                                     session_id |-> h.session_id,
                                     inbound |-> ev.stream_id] >>
                            ELSE <<>>,
                !.writes = <<write>>,
                !.delivered = << [stream_id |-> ev.stream_id, data |-> ev.data,
                                  stream_ended |-> ev.stream_ended] >>]
    ELSE Outcome(h, map)

DatagramEchoWithoutTransmit(h, map, n, ev) ==
    IF ev.type = "DatagramReceived"
    THEN [Outcome(h, map) EXCEPT
             !.datagrams = << [session_id |-> h.session_id, data |-> ev.data] >>]
    ELSE Outcome(h, map)

\* AudioEchoDatagram.h3_event_received, VideoEchoDatagram.h3_event_received
DatagramEchoH3EventReceived(h, map, n, ev) ==
    IF ev.type = "DatagramReceived"
    THEN [Outcome(h, map) EXCEPT
             !.datagrams = << [session_id |-> h.session_id, data |-> ev.data] >>,
             !.transmits = 1]
    ELSE Outcome(h, map)

HandlerDispatchSwapped(h, map, n, ev) ==
    IF h.kind \in StreamKinds
    THEN DatagramEchoH3EventReceived(h, map, n, ev)
    ELSE StreamEchoH3EventReceived(h, map, n, ev)

\* self._handler.h3_event_received(event)
HandlerH3EventReceived(h, map, n, ev) ==
    IF h.kind \in StreamKinds
    THEN StreamEchoH3EventReceived(h, map, n, ev)
    ELSE DatagramEchoH3EventReceived(h, map, n, ev)

----------------------------------------------------------------------------
\* WebTransportProtocol.

SendResponseWithoutDraft(stream_id, status_code, end_stream) ==
    [stream_id |-> stream_id,
     headers |-> << <<":status", StrEncode(status_code)>> >>,
     end_stream |-> end_stream]

\* _send_response: the send_headers call it makes.
SendResponse(stream_id, status_code, end_stream) ==
    [stream_id |-> stream_id,
     headers |-> << <<":status", StrEncode(status_code)>>,
                    <<"sec-webtransport-http3-draft", "draft02">> >>,
     end_stream |-> end_stream]

RejectDroppingSession(h, map, stream_id, status_code) ==
    [Outcome(NoHandler, EmptyMap) EXCEPT
        !.sent = <<SendResponse(stream_id, status_code, TRUE)>>]

RejectSilently(h, map, stream_id, status_code) == Outcome(h, map)

\* self._send_response(stream_id, status_code, end_stream=True), the whole
\* effect of a request that is turned down.
Reject(h, map, stream_id, status_code) ==
    [Outcome(h, map) EXCEPT !.sent = <<SendResponse(stream_id, status_code, TRUE)>>]

RouteKindCaseless(path) ==
    IF path \in {"/audio/echo/stream", "/AUDIO/ECHO/STREAM"} THEN "AudioEchoStream"
    ELSE IF path = "/video/echo/stream" THEN "VideoEchoStream"
    ELSE IF path = "/audio/echo/datagram" THEN "AudioEchoDatagram"
    ELSE IF path = "/video/echo/datagram" THEN "VideoEchoDatagram"
    ELSE "None"

RouteKindSwapped(path) ==
    IF path = "/audio/echo/stream" THEN "AudioEchoStream"
    ELSE IF path = "/video/echo/stream" THEN "VideoEchoStream"
    ELSE IF path = "/audio/echo/datagram" THEN "AudioEchoDatagram"
    ELSE IF path = "/video/echo/datagram" THEN "VideoEchoStream"
    ELSE "None"

\* The elif chain of _handshake_webtransport: the handler class of a path.
RouteKind(path) ==
    IF path = "/audio/echo/stream" THEN "AudioEchoStream"
    ELSE IF path = "/video/echo/stream" THEN "VideoEchoStream"
    ELSE IF path = "/audio/echo/datagram" THEN "AudioEchoDatagram"
    ELSE IF path = "/video/echo/datagram" THEN "VideoEchoDatagram"
    ELSE "None"

AssertStripped(h) == TRUE

\* assert(self._handler is None)
AssertNoHandler(h) == h = NoHandler

MissingBoth(authority, path) == authority = Absent /\ path = Absent

\* if authority is None or path is None
MissingRequired(authority, path) == authority = Absent \/ path = Absent

\* _handshake_webtransport(stream_id, request_headers)
HandshakeWebtransport(h, map, stream_id, headers) ==
    LET authority == Get(headers, ":authority")
        path == Get(headers, ":path")
    IN IF MissingRequired(authority, path)
       THEN Reject(h, map, stream_id, 400)
       ELSE IF RouteKind(path) # "None"
       THEN IF AssertNoHandler(h)
            THEN [Outcome([kind |-> RouteKind(path), session_id |-> stream_id],
                          EmptyMap) EXCEPT
                     !.sent = <<SendResponse(stream_id, 200, FALSE)>>]
            ELSE [Outcome(h, map) EXCEPT !.raised = <<"AssertionError">>]
       ELSE Reject(h, map, stream_id, 404)

IsSessionCloseOfTwoBytes(ev) ==
    /\ Len(ev.data) >= 2
    /\ ev.stream_ended
    /\ ev.data[1] = 104
    /\ ev.data[2] = 67

\* The test of _h3_event_received on a DataReceived event.
IsSessionClose(ev) ==
    /\ Len(ev.data) >= 3
    /\ ev.stream_ended
    /\ ev.data[1] = 104                                       \* 0x68
    /\ ev.data[2] = 67                                        \* 0x43

\* The first part of _h3_event_received: the branches on the event's type.
RouteH3Event(h, map, ev) ==
    IF ev.type = "HeadersReceived"
    THEN LET headers == HeadersDict(ev.headers)
         IN IF /\ Get(headers, ":method") = "CONNECT"
               /\ Get(headers, ":protocol") = "webtransport"
            THEN HandshakeWebtransport(h, map, ev.stream_id, headers)
            ELSE Reject(h, map, ev.stream_id, 400)
    ELSE IF ev.type = "DataReceived" /\ IsSessionClose(ev)
    THEN IF h = NoHandler
         THEN [Outcome(h, map) EXCEPT !.raised = <<"AttributeError">>]
         ELSE [Outcome(h, map) EXCEPT !.closed = 1]    \* session_closed() returns
    ELSE Outcome(h, map)

\* Whether the router hands the event to the handler: if self._handler
Forwards(h) == h # NoHandler

\* _h3_event_received(event); n is the number of outbound streams created
\* so far on the connection.
H3EventReceived(h, map, n, ev) ==
    LET first == RouteH3Event(h, map, ev)
    IN IF first.raised # <<>> \/ ~Forwards(first.handler)
       THEN first
       ELSE LET second == HandlerH3EventReceived(first.handler, first.map, n, ev)
            IN [second EXCEPT !.sent = first.sent, !.closed = first.closed]

\* quic_event_received on a StreamReset event; the HTTP/3 layer makes no
\* event of a reset.
StreamResetReceived(h, map, stream_id) ==
    IF h # NoHandler THEN StreamClosed(h, map, stream_id) ELSE Outcome(h, map)

----------------------------------------------------------------------------
\* Steps: one event delivered to one connection.

\* The mapping table as an attribute of the class, shared by every handler.
ApplySharedTable(c, ev, o) ==
    /\ handler' = [handler EXCEPT ![c] = o.handler]
    /\ echo_stream_id' = [d \in Conns |-> o.map]
    /\ responses' = [responses EXCEPT ![c] = @ \o o.sent]
    /\ created' = [created EXCEPT ![c] = @ \o o.created]
    /\ writes' = [writes EXCEPT ![c] = @ \o o.writes]
    /\ datagrams' = [datagrams EXCEPT ![c] = @ \o o.datagrams]
    /\ transmits' = [transmits EXCEPT ![c] = @ + o.transmits]
    /\ closedCalls' = [closedCalls EXCEPT ![c] = @ + o.closed]
    /\ errors' = [errors EXCEPT ![c] = @ \o o.raised]
    /\ delivered' = [delivered EXCEPT ![c] = @ \o o.delivered]
    /\ event' = ev
    /\ before' = Snapshot(c)
    /\ nEvents' = nEvents + 1
    /\ UNCHANGED http

Apply(c, ev, o) ==
    /\ handler' = [handler EXCEPT ![c] = o.handler]
    /\ echo_stream_id' = [echo_stream_id EXCEPT ![c] = o.map]
    /\ responses' = [responses EXCEPT ![c] = @ \o o.sent]
    /\ created' = [created EXCEPT ![c] = @ \o o.created]
    /\ writes' = [writes EXCEPT ![c] = @ \o o.writes]
    /\ datagrams' = [datagrams EXCEPT ![c] = @ \o o.datagrams]
    /\ transmits' = [transmits EXCEPT ![c] = @ + o.transmits]
    /\ closedCalls' = [closedCalls EXCEPT ![c] = @ + o.closed]
    /\ errors' = [errors EXCEPT ![c] = @ \o o.raised]
    /\ delivered' = [delivered EXCEPT ![c] = @ \o o.delivered]
    /\ event' = ev
    /\ before' = Snapshot(c)
    /\ nEvents' = nEvents + 1
    /\ UNCHANGED http

ProtocolNegotiated(c) ==
    /\ ~http[c]
    /\ http' = [http EXCEPT ![c] = TRUE]
    /\ event' = [type |-> "ProtocolNegotiated", conn |-> c]
    /\ before' = Snapshot(c)
    /\ UNCHANGED <<handler, echo_stream_id, responses, created, writes,
                   datagrams, transmits, closedCalls, errors, delivered, nEvents>>

\* The steps, over the inputs the surrounding specification offers and with
\* its budget of events.
StreamResetStep(c, ids, max) ==
    /\ http[c]
    /\ nEvents < max
    /\ \E s \in ids :
          LET ev == [type |-> "StreamReset", conn |-> c, stream_id |-> s]
          IN \E o \in {StreamResetReceived(handler[c], echo_stream_id[c], s)} :
                Apply(c, ev, o)

HeadersReceivedStep(c, requests, max) ==
    /\ http[c]
    /\ nEvents < max
    /\ \E r \in requests :
          LET ev == [type |-> "HeadersReceived", conn |-> c, stream_id |-> r[1],
                     headers |-> r[2]]
          IN \E o \in {H3EventReceived(handler[c], echo_stream_id[c],
                                       Len(created[c]), ev)} : Apply(c, ev, o)

DataReceivedStep(c, frames, max) ==
    /\ http[c]
    /\ nEvents < max
    /\ \E s \in DataStreamIds, f \in frames :
          LET ev == [type |-> "DataReceived", conn |-> c, stream_id |-> s,
                     data |-> f[1], stream_ended |-> f[2]]
          IN \E o \in {H3EventReceived(handler[c], echo_stream_id[c],
                                       Len(created[c]), ev)} : Apply(c, ev, o)

StreamDataReceivedStep(c, ids, chunks, max) ==
    /\ http[c]
    /\ nEvents < max
    /\ \E s \in ids, sess \in ClientSessionIds, d \in chunks, fin \in BOOLEAN :
          LET ev == [type |-> "WebTransportStreamDataReceived", conn |-> c,
                     stream_id |-> s, session_id |-> sess, data |-> d,
                     stream_ended |-> fin]
          IN \E o \in {H3EventReceived(handler[c], echo_stream_id[c],
                                       Len(created[c]), ev)} : Apply(c, ev, o)

DatagramReceivedStep(c, payloads, max) ==
    /\ http[c]
    /\ nEvents < max
    /\ \E d \in payloads :
          LET ev == [type |-> "DatagramReceived", conn |-> c, data |-> d]
          IN \E o \in {H3EventReceived(handler[c], echo_stream_id[c],
                                       Len(created[c]), ev)} : Apply(c, ev, o)

StreamReset(c) == StreamResetStep(c, InboundStreamIds, MaxEvents)

HeadersReceived(c) == HeadersReceivedStep(c, Requests, MaxEvents)

DataReceived(c) == DataReceivedStep(c, DataFrames, MaxEvents)

WebTransportStreamDataReceived(c) ==
    StreamDataReceivedStep(c, InboundStreamIds, Chunks, MaxEvents)

DatagramReceived(c) == DatagramReceivedStep(c, DatagramPayloads, MaxEvents)

Next ==
    \E c \in Primary :
        \/ ProtocolNegotiated(c)
        \/ StreamReset(c)
        \/ HeadersReceived(c)
        \/ DataReceived(c)
        \/ WebTransportStreamDataReceived(c)
        \/ DatagramReceived(c)

Spec == Init /\ [][Next]_vars

\* Two connections at once, each with one client: it opens a stream session, a
\* datagram session or is turned down with 404, sends chunks of stream 2 and a
\* datagram, resets stream 2 and sends the close message.
TwoRequests ==
    {<<0, HeaderList("CONNECT", "webtransport", "localhost", pa)>> :
        pa \in {"/audio/echo/stream", "/video/echo/datagram", "/audio/echo"}}
TwoInboundStreamIds == {2}
TwoChunks == {<<97, 98, 99>>}
TwoDatagramPayloads == {<<3>>}
TwoDataFrames == {<< <<104, 67, 0>>, TRUE >>}

TwoStreamReset(c) == StreamResetStep(c, TwoInboundStreamIds, MaxEventsTwo)

TwoHeadersReceived(c) == HeadersReceivedStep(c, TwoRequests, MaxEventsTwo)

TwoDataReceived(c) == DataReceivedStep(c, TwoDataFrames, MaxEventsTwo)

TwoStreamDataReceived(c) ==
    StreamDataReceivedStep(c, TwoInboundStreamIds, TwoChunks, MaxEventsTwo)

TwoDatagramReceived(c) == DatagramReceivedStep(c, TwoDatagramPayloads, MaxEventsTwo)

NextTwo ==
    \E c \in Conns :
        \/ ProtocolNegotiated(c)
        \/ TwoStreamReset(c)
        \/ TwoHeadersReceived(c)
        \/ TwoDataReceived(c)
        \/ TwoStreamDataReceived(c)
        \/ TwoDatagramReceived(c)

SpecTwo == Init /\ [][NextTwo]_vars

----------------------------------------------------------------------------
\* Vocabulary of the properties. They speak of the last step: the event it
\* processed, the connection's state before it and the state after it.

Acted == event.type # "none"

\* A header of the request just received: the value of its last occurrence.
Requested(name) ==
    LET at == {i \in DOMAIN event.headers : event.headers[i][1] = name}
    IN IF at = {} THEN Absent
       ELSE event.headers[CHOOSE i \in at : \A j \in at : j <= i][2]

IsRequest == event.type = "HeadersReceived"

IsExtendedConnect ==
    /\ IsRequest
    /\ Requested(":method") = "CONNECT"
    /\ Requested(":protocol") = "webtransport"

StreamPaths == {"/audio/echo/stream", "/video/echo/stream"}
DatagramPaths == {"/audio/echo/datagram", "/video/echo/datagram"}

\* The bytes of "200", "400" and "404".
Bytes200 == <<50, 48, 48>>
Bytes400 == <<52, 48, 48>>
Bytes404 == <<52, 48, 52>>

HasStatus(r, bytes) == \E i \in DOMAIN r.headers : r.headers[i] = <<":status", bytes>>

\* What the last step added to a log.
Added(now, was) == SubSeq(now, Len(was) + 1, Len(now))
Extends(now, was) == Len(now) >= Len(was) /\ SubSeq(now, 1, Len(was)) = was

\* The last step sent exactly one response: on the request's stream, with
\* this status and this end-of-stream flag.
AnsweredOnce(bytes, end) ==
    /\ Extends(responses[event.conn], before.responses)
    /\ Len(responses[event.conn]) = Len(before.responses) + 1
    /\ LET r == responses[event.conn][Len(responses[event.conn])]
       IN /\ r.stream_id = event.stream_id
          /\ HasStatus(r, bytes)
          /\ r.end_stream = end

\* The last step made no call on the transport.
NothingSent ==
    /\ responses[event.conn] = before.responses
    /\ created[event.conn] = before.created
    /\ writes[event.conn] = before.writes
    /\ datagrams[event.conn] = before.datagrams
    /\ transmits[event.conn] = before.transmits

NoEchoOutput ==
    /\ created[event.conn] = before.created
    /\ writes[event.conn] = before.writes
    /\ datagrams[event.conn] = before.datagrams

NoErrorRaised == errors[event.conn] = before.errors

----------------------------------------------------------------------------
\* C1: on a connection without a session, an extended CONNECT with :authority
\* and a routed :path is answered with one 200 response that leaves the request
\* stream open, and the connection gets a handler of the path's variant whose
\* session id is the request's stream id.
C1_RoutedConnectOpensSession ==
    (/\ IsExtendedConnect
     /\ before.handler = NoHandler
     /\ Requested(":authority") # Absent
     /\ Requested(":path") \in StreamPaths \cup DatagramPaths)
    => /\ AnsweredOnce(Bytes200, FALSE)
       /\ NoErrorRaised
       /\ handler[event.conn].session_id = event.stream_id
       /\ Requested(":path") \in StreamPaths
             => handler[event.conn].kind \in StreamKinds
       /\ Requested(":path") \in DatagramPaths
             => handler[event.conn].kind \in DatagramKinds

C1_Witness ==
    /\ IsExtendedConnect
    /\ before.handler = NoHandler
    /\ Requested(":path") = "/video/echo/datagram"
    /\ event.stream_id = 4
    /\ Len(before.responses) = 1
    /\ handler[event.conn] = [kind |-> "VideoEchoDatagram", session_id |-> 4]

\* The chunks a stream echo handler received on inbound stream s, and the
\* writes made on the outbound streams opened for s, as (data, end) pairs.
ChunksOf(c, s) ==
    LET sel == SelectSeq(delivered[c], LAMBDA d : d.stream_id = s)
    IN [i \in DOMAIN sel |-> <<sel[i].data, sel[i].stream_ended>>]

OutboundOf(c, s) ==
    {created[c][i].stream_id : i \in {j \in DOMAIN created[c] :
                                        created[c][j].inbound = s}}

WritesFor(c, s) ==
    LET sel == SelectSeq(writes[c], LAMBDA w : w.stream_id \in OutboundOf(c, s))
    IN [i \in DOMAIN sel |-> <<sel[i].data, sel[i].end_stream>>]

IsChunkForStreamEcho ==
    /\ event.type = "WebTransportStreamDataReceived"
    /\ before.handler.kind \in StreamKinds

\* C2: the chunks of one inbound stream are written in order, byte-identical
\* and with their own end-of-stream flag, however chunks of other streams
\* interleave: the writes for every inbound stream are its chunks; each chunk
\* makes one write, on the stream its id is mapped to; and a mapping stays as
\* it is until its own stream ends or is reset.
C2_ChunksEchoedInOrder ==
    Acted =>
      LET c == event.conn
      IN /\ \A s \in InboundStreamIds : WritesFor(c, s) = ChunksOf(c, s)
         /\ IsChunkForStreamEcho =>
               /\ writes[c] = Append(before.writes,
                     [stream_id |-> IF event.stream_id \in DOMAIN before.map
                                    THEN before.map[event.stream_id]
                                    ELSE created[c][Len(created[c])].stream_id,
                      data |-> event.data,
                      end_stream |-> event.stream_ended])
               /\ event.stream_id \in DOMAIN before.map
                     => created[c] = before.created
         /\ \A s \in DOMAIN before.map :
               (~(event.type = "StreamReset" /\ event.stream_id = s)
                /\ ~(IsChunkForStreamEcho /\ event.stream_id = s
                     /\ event.stream_ended))
               => (s \in DOMAIN echo_stream_id[c]
                   /\ echo_stream_id[c][s] = before.map[s])

\* Two chunks of stream 2 with a chunk of stream 8 between them; the second
\* ends the stream.
C2_Witness ==
    /\ Acted
    /\ ChunksOf(event.conn, 2) = << <<(<<97, 98, 99>>), FALSE>>,
                                    <<(<<100, 101, 102>>), TRUE>> >>
    /\ Len(delivered[event.conn]) = 3
    /\ delivered[event.conn][2].stream_id = 8
    /\ Cardinality(OutboundOf(event.conn, 2)) = 1

\* C3: an inbound stream id gets at most one outbound stream over the whole
\* session, and no outbound stream id belongs to two inbound ids.
C3_OneOutboundPerInbound ==
    \A c \in Conns :
       /\ \A s \in InboundStreamIds : Cardinality(OutboundOf(c, s)) <= 1
       /\ \A i, j \in DOMAIN created[c] :
             created[c][i].stream_id = created[c][j].stream_id => i = j

\* C4: once a handler exists, no event replaces it or changes its variant or
\* its session id.
C4_HandlerNeverReplaced ==
    (Acted /\ before.handler # NoHandler)
    => handler[event.conn] = before.handler

\* A routed CONNECT on stream 4 while the session of stream 0 is active.
C4_Witness ==
    /\ IsExtendedConnect
    /\ Requested(":authority") # Absent
    /\ Requested(":path") \in StreamPaths \cup DatagramPaths
    /\ event.stream_id = 4
    /\ before.handler # NoHandler
    /\ before.handler.session_id = 0
    /\ handler[event.conn] = before.handler

\* C5: an extended CONNECT that arrives while a session is active is fatal:
\* it raises an error and is not answered, whatever its path and whether or
\* not it has :authority and :path.
C5_SecondHandshakeFatal ==
    (IsExtendedConnect /\ before.handler # NoHandler)
    => /\ responses[event.conn] = before.responses
       /\ ~NoErrorRaised

\* C6: once the session-closed notification was made, no event reaches the
\* handler: no outbound stream, no stream write, no datagram.
C6_NoForwardingAfterClose ==
    (Acted /\ before.closedCalls > 0) => NoEchoOutput

\* C7: a stream reset during a session raises no error, removes at most the
\* mapping of its stream and leaves the session as it is, for either variant.
C7_ResetIsPerStreamCleanup ==
    (event.type = "StreamReset" /\ before.handler # NoHandler)
    => /\ NoErrorRaised
       /\ handler[event.conn] = before.handler
       /\ NothingSent
       /\ \A s \in DOMAIN before.map \ {event.stream_id} :
             s \in DOMAIN echo_stream_id[event.conn]
             /\ echo_stream_id[event.conn][s] = before.map[s]

\* C8: without a handler, every event that is no request changes nothing and
\* raises no error.
C8_IgnoredWithoutHandler ==
    (/\ event.type \in {"StreamReset", "WebTransportStreamDataReceived",
                        "DatagramReceived", "DataReceived"}
     /\ before.handler = NoHandler)
    => Snapshot(event.conn) = before

\* C9 as claimed: every CONNECT request is answered exactly once, in every
\* state of the connection.
C9_EveryConnectAnsweredOnce ==
    (IsRequest /\ Requested(":method") = "CONNECT")
    => Len(Added(responses[event.conn], before.responses)) = 1

IsRoutedConnect ==
    /\ IsExtendedConnect
    /\ Requested(":authority") # Absent
    /\ Requested(":path") \in StreamPaths \cup DatagramPaths

\* C9 as amended: a request is answered exactly once, on its own stream,
\* unless it is a routed extended CONNECT arriving while a session is active;
\* that one raises AssertionError and is not answered. No event that is not a
\* request is answered.
C9_AnsweredOnceUnlessDuplicate ==
    Acted =>
      LET c == event.conn
          sent == Added(responses[c], before.responses)
      IN /\ Extends(responses[c], before.responses)
         /\ (IsRequest /\ ~(IsRoutedConnect /\ before.handler # NoHandler))
               => Len(sent) = 1 /\ sent[1].stream_id = event.stream_id
         /\ (IsRoutedConnect /\ before.handler # NoHandler)
               => sent = <<>> /\ errors[c] = Append(before.errors, "AssertionError")
         /\ ~IsRequest => sent = <<>>

\* A routed CONNECT during a session, unanswered, after two answered requests.
C9_Witness ==
    /\ IsRoutedConnect
    /\ before.handler # NoHandler
    /\ Len(responses[event.conn]) = 2
    /\ responses[event.conn][1].stream_id = 0
    /\ responses[event.conn][2].stream_id = 4
    /\ errors[event.conn] = <<"AssertionError">>

IsMalformed ==
    /\ IsRequest
    /\ \/ Requested(":method") # "CONNECT"
       \/ Requested(":protocol") # "webtransport"
       \/ Requested(":authority") = Absent
       \/ Requested(":path") = Absent

\* C10: a request that is no extended CONNECT, or that lacks :authority or
\* :path, is answered with one 400 response that ends the stream, and creates
\* no session.
C10_MalformedGets400 ==
    IsMalformed
    => /\ AnsweredOnce(Bytes400, TRUE)
       /\ handler[event.conn] = before.handler
       /\ NoErrorRaised

\* An extended CONNECT with a routed path and no :authority.
C10_Witness ==
    /\ IsExtendedConnect
    /\ Requested(":authority") = Absent
    /\ Requested(":path") = "/audio/echo/stream"
    /\ AnsweredOnce(Bytes400, TRUE)
    /\ handler[event.conn] = NoHandler

\* C11: an extended CONNECT with :authority and a :path that is none of the
\* four routed paths (a prefix of one, or one in another case) is answered
\* with one 404 response that ends the stream, and creates no session.
C11_UnroutedPathGets404 ==
    (/\ IsExtendedConnect
     /\ Requested(":authority") # Absent
     /\ Requested(":path") # Absent
     /\ Requested(":path") \notin StreamPaths \cup DatagramPaths)
    => /\ AnsweredOnce(Bytes404, TRUE)
       /\ handler[event.conn] = before.handler
       /\ NoErrorRaised

\* A routed path in upper case, on a connection without a session.
C11_Witness ==
    /\ IsExtendedConnect
    /\ Requested(":authority") # Absent
    /\ Requested(":path") = "/AUDIO/ECHO/STREAM"
    /\ AnsweredOnce(Bytes404, TRUE)
    /\ handler[event.conn] = NoHandler

IsDatagramForDatagramEcho ==
    /\ event.type = "DatagramReceived"
    /\ before.handler.kind \in DatagramKinds

\* C12: a datagram delivered to a datagram echo handler is sent back once, with
\* the same payload and on the handler's session id, after the echoes of the
\* datagrams before it, and transmit is called once; the handler's state does
\* not change.
C12_DatagramEchoedOnce ==
    IsDatagramForDatagramEcho
    => /\ datagrams[event.conn] =
             Append(before.datagrams,
                    [session_id |-> before.handler.session_id, data |-> event.data])
       /\ transmits[event.conn] = before.transmits + 1
       /\ handler[event.conn] = before.handler
       /\ echo_stream_id[event.conn] = before.map
       /\ created[event.conn] = before.created
       /\ writes[event.conn] = before.writes
       /\ NoErrorRaised

\* The datagrams b"\x01\x02" and b"\x03", echoed as two datagrams.
C12_Witness ==
    /\ IsDatagramForDatagramEcho
    /\ datagrams[event.conn] = << [session_id |-> 0, data |-> <<1, 2>>],
                                  [session_id |-> 0, data |-> <<3>>] >>
    /\ transmits[event.conn] = 2

\* C13: in a stream echo handler, stream_closed for a stream id without a
\* mapping raises no error and changes nothing, and stream_closed applied twice
\* leaves what one application leaves.
C13_StreamClosedIdempotent ==
    /\ (/\ event.type = "StreamReset"
        /\ before.handler.kind \in StreamKinds
        /\ event.stream_id \notin DOMAIN before.map)
       => Snapshot(event.conn) = before
    /\ \A c \in Conns :
          handler[c].kind \in StreamKinds =>
             \A s \in InboundStreamIds :
                LET once == StreamEchoStreamClosed(handler[c], echo_stream_id[c], s)
                    twice == StreamEchoStreamClosed(once.handler, once.map, s)
                IN /\ once.raised = <<>>
                   /\ twice.raised = <<>>
                   /\ twice.map = once.map
                   /\ s \notin DOMAIN once.map

\* A second reset of stream 2, whose mapping the first reset removed.
C13_Witness ==
    /\ event.type = "StreamReset"
    /\ event.stream_id = 2
    /\ before.handler.kind \in StreamKinds
    /\ 2 \notin DOMAIN before.map
    /\ Len(before.created) = 1
    /\ before.created[1].inbound = 2
    /\ Len(before.writes) = 1
    /\ ~before.writes[1].end_stream

\* C14: a step of one connection leaves every other connection as it was: its
\* handler, its mapping table, and every call made on its transport.
C14_ConnectionsIsolated ==
    [][\A d \in Conns :
          d # event'.conn =>
             /\ Snapshot(d)' = Snapshot(d)
             /\ delivered'[d] = delivered[d]
             /\ http'[d] = http[d]]_vars

\* Connection A, a datagram session, fails on a reset while connection B, a
\* stream session, holds a mapping and has echoed a chunk.
C14_Witness ==
    /\ event.type = "StreamReset"
    /\ event.conn = "A"
    /\ handler["A"].kind \in DatagramKinds
    /\ errors["A"] = <<"AttributeError">>
    /\ handler["B"].kind \in StreamKinds
    /\ 2 \in DOMAIN echo_stream_id["B"]
    /\ Len(writes["B"]) = 1
    /\ errors["B"] = <<>>

DraftHeader == <<"sec-webtransport-http3-draft", "draft02">>

\* C15: every response sent has the status 200, 400 or 404 and the draft02
\* header, and ends its stream exactly when the status is not 200.
C15_ResponsesWellFormed ==
    \A c \in Conns : \A i \in DOMAIN responses[c] :
       LET r == responses[c][i]
       IN /\ Len(r.headers) = 2
          /\ r.headers[1][1] = ":status"
          /\ r.headers[1][2] \in {Bytes200, Bytes400, Bytes404}
          /\ r.headers[2] = DraftHeader
          /\ r.end_stream = (r.headers[1][2] # Bytes200)

\* A connection that has sent a 400, a 404 and a 200.
C15_Witness ==
    \E c \in Conns :
       /\ Len(responses[c]) = 3
       /\ \A b \in {Bytes200, Bytes400, Bytes404} :
             \E i \in DOMAIN responses[c] : HasStatus(responses[c][i], b)

BeginsWithMarker(data) ==
    Len(data) >= 2 /\ data[1] = 104 /\ data[2] = 67

Notified == closedCalls[event.conn] = before.closedCalls + 1

\* C16 as claimed: during a session, a DATA event makes the session-closed
\* notification exactly when it ends its stream and its first two bytes are
\* 0x68 0x43, a payload of just these two bytes included.
C16_CloseOnEndAndMarker ==
    (event.type = "DataReceived" /\ before.handler # NoHandler)
    => (Notified <=> (event.stream_ended /\ BeginsWithMarker(event.data)))

\* C16 as amended: the detection fires exactly for a DATA event that ends its
\* stream, has at least three bytes and begins with 0x68 0x43. With a handler
\* it then makes one notification; without one it raises AttributeError.
\* Nothing else makes a notification.
C16_CloseNeedsThreeBytes ==
    Acted =>
      LET c == event.conn
          fires == /\ event.type = "DataReceived"
                   /\ event.stream_ended
                   /\ Len(event.data) >= 3
                   /\ BeginsWithMarker(event.data)
      IN /\ (fires /\ before.handler # NoHandler) => (Notified /\ NoErrorRaised)
         /\ (fires /\ before.handler = NoHandler)
               => /\ closedCalls[c] = before.closedCalls
                  /\ errors[c] = Append(before.errors, "AttributeError")
         /\ ~fires => closedCalls[c] = before.closedCalls
         /\ (event.type = "DataReceived" /\ ~fires) => Snapshot(c) = before

\* The three-byte close message during a stream session.
C16_Witness ==
    /\ event.type = "DataReceived"
    /\ event.data = <<104, 67, 0>>
    /\ event.stream_ended
    /\ before.handler.kind \in StreamKinds
    /\ before.closedCalls = 0
    /\ closedCalls[event.conn] = 1

\* stream_is_unidirectional of QUIC: bit 1 of the stream id.
IsUnidirectional(stream_id) == (stream_id \div 2) % 2 = 1

\* C17: a stream echo handler does nothing with stream data of another
\* session id or of a bidirectional stream: no outbound stream, no write, no
\* mapping entry.
C17_OnlyOwnUnidirectionalStreams ==
    (/\ IsChunkForStreamEcho
     /\ \/ event.session_id # before.handler.session_id
        \/ ~IsUnidirectional(event.stream_id))
    => /\ NoEchoOutput
       /\ echo_stream_id[event.conn] = before.map

IsEndOf(s) ==
    \/ event.type = "StreamReset" /\ event.stream_id = s
    \/ IsChunkForStreamEcho /\ event.stream_id = s /\ event.stream_ended

\* C18: the mapping table has an entry for an inbound stream exactly when a
\* chunk of it was received and, since then, it has neither ended nor been
\* reset: a chunk that does not end the stream makes the entry, only the end
\* or a reset of that stream removes it, and an entry's stream has chunks, the
\* last of which did not end it.
C18_MappingTracksOpenStreams ==
    Acted =>
      LET c == event.conn
      IN /\ DOMAIN echo_stream_id[c] \subseteq InboundStreamIds
         /\ \A s \in InboundStreamIds :
               /\ s \in DOMAIN echo_stream_id[c]
                  <=> \/ /\ IsChunkForStreamEcho
                         /\ event.stream_id = s
                         /\ ~event.stream_ended
                      \/ s \in DOMAIN before.map /\ ~IsEndOf(s)
               /\ s \in DOMAIN echo_stream_id[c]
                  => /\ handler[c].kind \in StreamKinds
                     /\ ChunksOf(c, s) # <<>>
                     /\ ~ChunksOf(c, s)[Len(ChunksOf(c, s))][2]

\* Streams 2 and 8 have sent data; 8 has ended and 2 is reset: no entry left.
C18_Witness ==
    /\ event.type = "StreamReset"
    /\ event.stream_id = 2
    /\ DOMAIN before.map = {2}
    /\ ChunksOf(event.conn, 8) # <<>>
    /\ echo_stream_id[event.conn] = EmptyMap

IsRejection ==
    /\ IsRequest
    /\ Len(responses[event.conn]) > Len(before.responses)
    /\ LET r == responses[event.conn][Len(responses[event.conn])]
       IN HasStatus(r, Bytes400) \/ HasStatus(r, Bytes404)

\* C19: a request turned down with 400 or 404 adds its response and changes
\* nothing else, with or without a session; a connection that has only turned
\* requests down still accepts a routed CONNECT with 200.
C19_RejectionChangesOnlyResponses ==
    /\ IsRejection
       => /\ Len(responses[event.conn]) = Len(before.responses) + 1
          /\ Snapshot(event.conn) =
                [before EXCEPT !.responses = responses[event.conn]]
    /\ (IsRoutedConnect /\ before.handler = NoHandler /\ before.responses # <<>>)
       => /\ AnsweredOnce(Bytes200, FALSE)
          /\ handler[event.conn] # NoHandler

\* A routed CONNECT accepted after a 400 and a 404 on the same connection.
C19_Witness ==
    /\ IsRoutedConnect
    /\ before.handler = NoHandler
    /\ Len(before.responses) = 2
    /\ HasStatus(before.responses[1], Bytes400)
    /\ HasStatus(before.responses[2], Bytes404)
    /\ AnsweredOnce(Bytes200, FALSE)
    /\ handler[event.conn].kind \in StreamKinds

\* C20: a step writes to a stream only for a stream-data event given to a
\* stream echo handler, once, opening at most one outbound stream for it; it
\* sends a datagram and transmits only for a datagram event given to a
\* datagram echo handler, once. Every other event and handler emits nothing.
C20_NoUnsolicitedOutput ==
    Acted =>
      LET c == event.conn
      IN /\ Extends(writes[c], before.writes)
         /\ Extends(created[c], before.created)
         /\ Extends(datagrams[c], before.datagrams)
         /\ Len(writes[c]) - Len(before.writes)
               = IF IsChunkForStreamEcho THEN 1 ELSE 0
         /\ Len(created[c]) - Len(before.created)
               \in IF IsChunkForStreamEcho THEN {0, 1} ELSE {0}
         /\ Len(datagrams[c]) - Len(before.datagrams)
               = IF IsDatagramForDatagramEcho THEN 1 ELSE 0
         /\ transmits[c] - before.transmits
               = IF IsDatagramForDatagramEcho THEN 1 ELSE 0

\* A datagram given to a stream echo handler that has echoed two chunks.
C20_Witness ==
    /\ event.type = "DatagramReceived"
    /\ before.handler.kind \in StreamKinds
    /\ Len(writes[event.conn]) = 2
    /\ datagrams[event.conn] = <<>>
    /\ transmits[event.conn] = 0

====
